---- MODULE Spec2Model ----
(***************************************************************************)
(* WebSocketConnection (sanic/server/websockets/connection.py): the ASGI   *)
(* websocket adapter.  It owns two transport primitives, _send and         *)
(* _receive, and the list _subprotocols, and offers send, recv (alias      *)
(* receive), accept, close and the subprotocols property.                  *)
(*                                                                         *)
(* Python values are tagged records [t |-> type, v |-> payload]; a dict    *)
(* (an ASGI message) is a function from its keys to such values, so        *)
(* "key in message" is "key \in DOMAIN message".                           *)
(***************************************************************************)
EXTENDS Integers, Sequences, FiniteSets, TLC

VARIABLES
    _subprotocols,  \* self._subprotocols
    calls,          \* the adapter methods called so far, in order (names)
    transport,      \* the transport primitives invoked so far, in order
    last,           \* the latest adapter call: arguments, transport traffic, outcome
    negotiated,     \* <<override, subprotocol>> of each accept since _subprotocols was last set
    tasks,          \* concurrent callers of send: each one's position and locals
    wire            \* the messages concurrent callers handed to self._send, in order

vars == <<_subprotocols, calls, transport, last, negotiated, tasks, wire>>

----------------------------------------------------------------------------
(* Bounds of the exploration *)

MaxCalls == 3    \* adapter calls per behaviour
MaxLen == 2      \* length of a subprotocol list given by a caller
MaxTasks == 3    \* tasks calling send concurrently

----------------------------------------------------------------------------
(* Python values *)

None == [t |-> "none"]
StrV(s) == [t |-> "str", v |-> s]
BytesV(b) == [t |-> "bytes", v |-> b]
ByteArrayV(b) == [t |-> "bytearray", v |-> b]
IntV(n) == [t |-> "int", v |-> n]
ListV(l) == [t |-> "list", v |-> l]

(* How a call ends: it returns a value or raises an exception. *)
Returned(v) == [how |-> "return", val |-> v]
Raised(e) == [how |-> "raise", val |-> [t |-> "exc", v |-> e]]

(* The decimal digits of a natural number, as str() prints them. *)
RECURSIVE Digits(_)
Digits(n) ==
    LET d == CASE n % 10 = 0 -> "0" [] n % 10 = 1 -> "1" [] n % 10 = 2 -> "2"
               [] n % 10 = 3 -> "3" [] n % 10 = 4 -> "4" [] n % 10 = 5 -> "5"
               [] n % 10 = 6 -> "6" [] n % 10 = 7 -> "7" [] n % 10 = 8 -> "8"
               [] OTHER -> "9"
    IN IF n < 10 THEN d ELSE Digits(n \div 10) \o d

(* repr() of one byte inside a bytes literal: printable ASCII letters as  *)
(* themselves, the rest as a \xNN escape (only the bytes the model uses). *)
ReprByte(b) ==
    CASE b = 97 -> "a" [] b = 98 -> "b"
      [] b = 1 -> "\\x01" [] b = 2 -> "\\x02"
      [] OTHER -> "\\x00"

RECURSIVE ReprBytes(_)
ReprBytes(bs) ==
    IF bs = <<>> THEN "" ELSE ReprByte(Head(bs)) \o ReprBytes(Tail(bs))

(* str(data), for the values a caller can hand to send. *)
Str(data) ==
    CASE data.t = "str" -> data.v
      [] data.t = "int" -> IF data.v < 0 THEN "-" \o Digits(-data.v) ELSE Digits(data.v)
      [] data.t = "none" -> "None"
      [] data.t = "bytes" -> "b'" \o ReprBytes(data.v) \o "'"
      [] data.t = "bytearray" -> "bytearray(b'" \o ReprBytes(data.v) \o "')"

(* isinstance(data, bytes): bytearray is not a subclass of bytes. *)
IsBytes(data) == data.t = "bytes"

(* Python truthiness of the values `x or []` and `if x:` are applied to. *)
Truthy(x) ==
    CASE x.t = "none" -> FALSE
      [] x.t = "list" -> x.v # <<>>
      [] OTHER -> TRUE

(* OrEmpty without the `or []`: the argument is stored as given. *)
OrEmpty_Keep(x) == x

(* `subprotocols or []`, as the list it leaves in self._subprotocols. *)
OrEmpty(x) == IF Truthy(x) THEN x ELSE ListV(<<>>)

----------------------------------------------------------------------------
(* Inputs *)

Protos == {"chatv1", "chatv2", "chatv3"}

(* The lists over S of at most n entries, no entry twice: a subprotocol   *)
(* list names each subprotocol once.                                      *)
RECURSIVE SeqsUpTo(_, _)
SeqsUpTo(S, n) ==
    IF n = 0 THEN {<<>>}
    ELSE LET shorter == SeqsUpTo(S, n - 1)
         IN shorter \cup UNION {{Append(s, x) : x \in {y \in S : \A i \in 1..Len(s) : s[i] # y}}
                                   : s \in shorter}

(* Optional[List[str]]: None or a list of subprotocol names. *)
SubprotocolArgs == {None} \cup {ListV(l) : l \in SeqsUpTo(Protos, MaxLen)}

(* What callers hand to send: text, bytes, and values of other types. *)
Data ==
    {StrV("hello"), StrV(""), BytesV(<<1, 2>>), BytesV(<<>>), BytesV(<<97>>),
     ByteArrayV(<<1, 2>>), IntV(42), IntV(-7), None}

(* Messages the transport's receive primitive can yield: a dict with or   *)
(* without each of "type", "text" and "bytes".                            *)
InTypes == {StrV("websocket.receive"), StrV("websocket.disconnect")}
InTexts == {StrV("hello"), None}
InBytes == {BytesV(<<1, 2>>)}

Envelope(ty, tx, by) ==
    [k \in {f \in {"type", "text", "bytes"} :
              \/ f = "type" /\ ty # {}
              \/ f = "text" /\ tx # {}
              \/ f = "bytes" /\ by # {}}
       |-> CASE k = "type" -> CHOOSE x \in ty : TRUE
             [] k = "text" -> CHOOSE x \in tx : TRUE
             [] k = "bytes" -> CHOOSE x \in by : TRUE]

Opt(S) == {{}} \cup {{x} : x \in S}

InMessages ==
    {Envelope(ty, tx, by) : ty \in Opt(InTypes), tx \in Opt(InTexts), by \in Opt(InBytes)}

(* Faults the transport primitives raise. *)
Faults == {"ConnectionResetError", "CancelledError"}

(* What awaiting self._send(message) can do: complete, or raise a fault. *)
SendReplies == {Returned(None)} \cup {Raised(f) : f \in Faults}

(* What awaiting self._receive() can do: yield a message, or raise. *)
ReceiveReplies == {Returned(m) : m \in InMessages} \cup {Raised(f) : f \in Faults}

CloseCodes == {1000, 4001}
CloseReasons == {"", "bye"}

----------------------------------------------------------------------------
(* The methods' computations *)

(* SendMessage without the str() coercion of the else branch. *)
SendMessage_NoCoerce(data) ==
    IF IsBytes(data)
    THEN [type |-> StrV("websocket.send"), bytes |-> data]
    ELSE [type |-> StrV("websocket.send"), text |-> data]

(* SendMessage without the isinstance branch: everything goes out as text. *)
SendMessage_AllText(data) ==
    [type |-> StrV("websocket.send"), text |-> StrV(Str(data))]

(* send, lines 39-44: the message built from data. *)
SendMessage(data) ==
    IF IsBytes(data)
    THEN [type |-> StrV("websocket.send"), bytes |-> data]
    ELSE [type |-> StrV("websocket.send"), text |-> StrV(Str(data))]

(* RecvResult with the two lookups swapped: "bytes" is tried first. *)
RecvResult_BytesFirst(message) ==
    IF "type" \notin DOMAIN message THEN Raised("KeyError")
    ELSE IF message["type"] = StrV("websocket.receive")
    THEN IF "bytes" \in DOMAIN message THEN Returned(message["bytes"])
         ELSE IF "text" \in DOMAIN message THEN Returned(message["text"])
         ELSE Raised("InvalidUsage")
    ELSE Returned(None)

(* RecvResult with the inner KeyError swallowed: falls through to return None. *)
RecvResult_NoneOnMalformed(message) ==
    IF "type" \notin DOMAIN message THEN Raised("KeyError")
    ELSE IF message["type"] = StrV("websocket.receive")
    THEN IF "text" \in DOMAIN message THEN Returned(message["text"])
         ELSE IF "bytes" \in DOMAIN message THEN Returned(message["bytes"])
         ELSE Returned(None)
    ELSE Returned(None)

(* RecvResult without the test of message["type"]. *)
RecvResult_IgnoreType(message) ==
    IF "text" \in DOMAIN message THEN Returned(message["text"])
    ELSE IF "bytes" \in DOMAIN message THEN Returned(message["bytes"])
    ELSE Raised("InvalidUsage")

(* recv, lines 51-59: what recv does with the message it was given. *)
RecvResult(message) ==
    IF "type" \notin DOMAIN message THEN Raised("KeyError")
    ELSE IF message["type"] = StrV("websocket.receive")
    THEN IF "text" \in DOMAIN message THEN Returned(message["text"])
         ELSE IF "bytes" \in DOMAIN message THEN Returned(message["bytes"])
         ELSE Raised("InvalidUsage")
    ELSE Returned(None)

(* accept, lines 66-69: the for loop over the override, from index i on. *)
RECURSIVE AcceptLoop(_, _, _)
AcceptLoop(subprotocols, configured, i) ==
    IF i > Len(subprotocols) THEN None
    ELSE IF \E j \in 1..Len(configured) : configured[j] = subprotocols[i]
    THEN StrV(subprotocols[i])
    ELSE AcceptLoop(subprotocols, configured, i + 1)

(* AcceptSubprotocol with the loop over the configured list instead: the *)
(* first configured entry that the override holds.                       *)
AcceptSubprotocol_ServerOrder(subprotocols, configured) ==
    IF Truthy(subprotocols) THEN AcceptLoop(configured.v, subprotocols.v, 1) ELSE None

(* accept, lines 64-69: the subprotocol put in the accept message. *)
AcceptSubprotocol(subprotocols, configured) ==
    IF Truthy(subprotocols) THEN AcceptLoop(subprotocols.v, configured.v, 1) ELSE None

(* accept, lines 72-75: the message. *)
AcceptMessage(subprotocol) ==
    [type |-> StrV("websocket.accept"), subprotocol |-> subprotocol]

(* One invocation of a transport primitive, as the transport log keeps it. *)
Invocation(prim) == [prim |-> prim]

(* The record of one adapter call. *)
Call(op, arg, sent, reply, out) ==
    [op |-> op, arg |-> arg, sent |-> sent, reply |-> reply, out |-> out]

NoReply == <<>>

----------------------------------------------------------------------------
(* The state machine *)

(* The subprotocols property, read. *)
get_subprotocols == _subprotocols

Init ==
    /\ \E subprotocols \in SubprotocolArgs :
         /\ _subprotocols = OrEmpty(subprotocols)
         /\ last = Call("__init__", subprotocols, <<>>, NoReply, Returned(None))
    /\ calls = <<>>
    /\ transport = <<>>
    /\ negotiated = {}
    /\ tasks = <<>>
    /\ wire = <<>>

(* send that invokes self._send a second time when the first raised. *)
send_Retry(data, reply) ==
    /\ Len(calls) < MaxCalls
    /\ LET message == SendMessage(data)
       IN /\ transport' = IF reply.how = "raise"
                          THEN transport \o <<Invocation("send"), Invocation("send")>>
                          ELSE Append(transport, Invocation("send"))
          /\ last' = Call("send", data, <<message>>, <<reply>>, reply)
    /\ calls' = Append(calls, "send")
    /\ UNCHANGED _subprotocols

(* await ws.send(data); reply is what awaiting self._send(message) does. *)
send(data, reply) ==
    /\ Len(calls) < MaxCalls
    /\ LET message == SendMessage(data)
       IN /\ transport' = Append(transport, Invocation("send"))
          /\ last' = Call("send", data, <<message>>, <<reply>>, reply)
    /\ calls' = Append(calls, "send")
    /\ UNCHANGED _subprotocols

(* recv that catches what self._receive() raises and returns None. *)
recv_Suppress(reply) ==
    /\ Len(calls) < MaxCalls
    /\ transport' = Append(transport, Invocation("receive"))
    /\ last' = Call("recv", None, <<>>, <<reply>>,
                    IF reply.how = "raise" THEN Returned(None) ELSE RecvResult(reply.val))
    /\ calls' = Append(calls, "recv")
    /\ UNCHANGED _subprotocols

(* await ws.recv(); reply is what awaiting self._receive() does. *)
recv(reply) ==
    /\ Len(calls) < MaxCalls
    /\ transport' = Append(transport, Invocation("receive"))
    /\ last' = Call("recv", None, <<>>, <<reply>>,
                    IF reply.how = "raise" THEN reply ELSE RecvResult(reply.val))
    /\ calls' = Append(calls, "recv")
    /\ UNCHANGED _subprotocols

(* accept that stores the override as the configured list (self.subprotocols *)
(* = subprotocols) after choosing.                                           *)
accept_Replaces(subprotocols, reply) ==
    /\ Len(calls) < MaxCalls
    /\ LET subprotocol == AcceptSubprotocol(subprotocols, get_subprotocols)
       IN /\ transport' = Append(transport, Invocation("send"))
          /\ last' = Call("accept", subprotocols, <<AcceptMessage(subprotocol)>>,
                          <<reply>>, reply)
    /\ calls' = Append(calls, "accept")
    /\ _subprotocols' = OrEmpty(subprotocols)

(* accept that tracks the connection phase: a second accept is rejected *)
(* with InvalidUsage and nothing is sent.                                *)
accept_Guarded(subprotocols, reply) ==
    /\ Len(calls) < MaxCalls
    /\ LET subprotocol == AcceptSubprotocol(subprotocols, get_subprotocols)
           again == \E i \in 1..Len(calls) : calls[i] = "accept"
       IN /\ transport' = IF again THEN transport
                          ELSE Append(transport, Invocation("send"))
          /\ last' = IF again
                     THEN Call("accept", subprotocols, <<>>, NoReply, Raised("InvalidUsage"))
                     ELSE Call("accept", subprotocols, <<AcceptMessage(subprotocol)>>,
                               <<reply>>, reply)
    /\ calls' = Append(calls, "accept")
    /\ UNCHANGED _subprotocols

(* await ws.accept(subprotocols) *)
accept(subprotocols, reply) ==
    /\ Len(calls) < MaxCalls
    /\ LET subprotocol == AcceptSubprotocol(subprotocols, get_subprotocols)
       IN /\ transport' = Append(transport, Invocation("send"))
          /\ last' = Call("accept", subprotocols, <<AcceptMessage(subprotocol)>>,
                          <<reply>>, reply)
    /\ calls' = Append(calls, "accept")
    /\ UNCHANGED _subprotocols

(* close that sends a "websocket.close" message through self._send. *)
close_SendsClose(code, reason) ==
    /\ Len(calls) < MaxCalls
    /\ transport' = Append(transport, Invocation("send"))
    /\ last' = Call("close", <<IntV(code), StrV(reason)>>,
                    <<[type |-> StrV("websocket.close"), code |-> IntV(code),
                       reason |-> StrV(reason)]>>,
                    <<Returned(None)>>, Returned(None))
    /\ calls' = Append(calls, "close")
    /\ UNCHANGED _subprotocols

(* await ws.close(code, reason): pass *)
close(code, reason) ==
    /\ Len(calls) < MaxCalls
    /\ last' = Call("close", <<IntV(code), StrV(reason)>>, <<>>, NoReply, Returned(None))
    /\ calls' = Append(calls, "close")
    /\ UNCHANGED <<_subprotocols, transport>>

(* ws.subprotocols = subprotocols *)
set_subprotocols(subprotocols) ==
    /\ Len(calls) < MaxCalls
    /\ _subprotocols' = OrEmpty(subprotocols)
    /\ last' = Call("subprotocols", subprotocols, <<>>, NoReply, Returned(None))
    /\ calls' = Append(calls, "subprotocols")
    /\ UNCHANGED transport

(* One call on the adapter by its single caller. *)
Next ==
    \/ \E data \in Data, reply \in SendReplies :
         send(data, reply) /\ UNCHANGED <<negotiated, tasks, wire>>
    \/ \E reply \in ReceiveReplies :
         recv(reply) /\ UNCHANGED <<negotiated, tasks, wire>>
    \/ \E subprotocols \in SubprotocolArgs, reply \in SendReplies :
         accept(subprotocols, reply) /\ UNCHANGED <<negotiated, tasks, wire>>
    \/ \E code \in CloseCodes, reason \in CloseReasons :
         close(code, reason) /\ UNCHANGED <<negotiated, tasks, wire>>
    \/ \E subprotocols \in SubprotocolArgs :
         set_subprotocols(subprotocols) /\ UNCHANGED <<negotiated, tasks, wire>>

Spec == Init /\ [][Next]_vars

----------------------------------------------------------------------------
(* The same calls, with the accepts since the last write remembered *)

(* What this step adds to the record of accepts: an accept adds its       *)
(* override and the subprotocol it sent, a write of subprotocols starts   *)
(* the record afresh.                                                     *)
Negotiate ==
    negotiated' =
      CASE calls' = Append(calls, "accept") ->
             negotiated \cup {<<last'.arg, last'.sent[1]["subprotocol"]>>}
        [] calls' = Append(calls, "subprotocols") -> {}
        [] OTHER -> negotiated

(* The calls are drawn from fewer inputs here, the subprotocol lists       *)
(* excepted: one text to send, one data message or one fault received, an  *)
(* accept whose send completes, the default close.                         *)
NegotiationData == {StrV("hello")}
NegotiationReceives ==
    {Returned([type |-> StrV("websocket.receive"), text |-> StrV("hello")]),
     Raised("ConnectionResetError")}

NextNegotiation ==
    \/ \E data \in NegotiationData :
         send(data, Returned(None)) /\ Negotiate /\ UNCHANGED <<tasks, wire>>
    \/ \E reply \in NegotiationReceives :
         recv(reply) /\ Negotiate /\ UNCHANGED <<tasks, wire>>
    \/ \E subprotocols \in SubprotocolArgs :
         accept(subprotocols, Returned(None)) /\ Negotiate /\ UNCHANGED <<tasks, wire>>
    \/ close(1000, "") /\ Negotiate /\ UNCHANGED <<tasks, wire>>
    \/ \E subprotocols \in SubprotocolArgs :
         set_subprotocols(subprotocols) /\ Negotiate /\ UNCHANGED <<tasks, wire>>

SpecNegotiation == Init /\ [][NextNegotiation]_vars

----------------------------------------------------------------------------
(* Several tasks in send at once.  A task runs lines 39-44 (its message    *)
(* is a local of its own call), hands the message to self._send on line    *)
(* 46 and is suspended there until the transport completes or raises.      *)
(* Nothing in send makes a task wait for another, so the steps of          *)
(* different tasks come in any order.                                      *)

Tasks == 1..MaxTasks

(* What the concurrent callers send. *)
ConcurrentData == {StrV("hello"), StrV(""), BytesV(<<1, 2>>)}

Task(pc, data, message, out) ==
    [pc |-> pc, data |-> data, message |-> message, out |-> out]

InitConcurrent ==
    /\ \E subprotocols \in {None, ListV(<<"chatv1">>)} :
         /\ _subprotocols = OrEmpty(subprotocols)
         /\ last = Call("__init__", subprotocols, <<>>, NoReply, Returned(None))
    /\ calls = <<>>
    /\ transport = <<>>
    /\ negotiated = {}
    /\ tasks \in [Tasks -> {Task("called", data, None, NoReply) : data \in ConcurrentData}]
    /\ wire = <<>>

(* send_build with the message kept in one place for all callers (a field *)
(* of the adapter, not a local): building it replaces the message of      *)
(* every task that has built and not yet sent.                            *)
send_build_Shared(t) ==
    /\ tasks[t].pc = "called"
    /\ tasks' = [u \in Tasks |->
                   IF u = t \/ tasks[u].pc = "built"
                   THEN Task("built", tasks[u].data, SendMessage(tasks[t].data), NoReply)
                   ELSE tasks[u]]
    /\ calls' = Append(calls, "send")
    /\ UNCHANGED <<_subprotocols, transport, last, negotiated, wire>>

(* Lines 39-44 in task t: the message is built into the call's local. *)
send_build(t) ==
    /\ tasks[t].pc = "called"
    /\ tasks' = [tasks EXCEPT ![t] =
                   Task("built", tasks[t].data, SendMessage(tasks[t].data), NoReply)]
    /\ calls' = Append(calls, "send")
    /\ UNCHANGED <<_subprotocols, transport, last, negotiated, wire>>

(* Line 46 in task t: self._send(message) is invoked and the task waits. *)
send_await(t) ==
    /\ tasks[t].pc = "built"
    /\ wire' = Append(wire, tasks[t].message)
    /\ transport' = Append(transport, Invocation("send"))
    /\ tasks' = [tasks EXCEPT ![t].pc = "awaiting"]
    /\ UNCHANGED <<_subprotocols, calls, last, negotiated>>

(* Line 46 in task t: the transport completes or raises, and so does send. *)
send_resume(t, reply) ==
    /\ tasks[t].pc = "awaiting"
    /\ tasks' = [tasks EXCEPT ![t].pc = "done", ![t].out = <<reply>>]
    /\ UNCHANGED <<_subprotocols, calls, transport, last, negotiated, wire>>

NextConcurrent ==
    \/ \E t \in Tasks : send_build(t)
    \/ \E t \in Tasks : send_await(t)
    \/ \E t \in Tasks, reply \in SendReplies : send_resume(t, reply)

SpecConcurrent == InitConcurrent /\ [][NextConcurrent]_vars

----------------------------------------------------------------------------
(* Vocabulary of the properties *)

Range(f) == {f[i] : i \in DOMAIN f}

(* The state follows a call of the method op. *)
After(op) == calls # <<>> /\ last.op = op

(* This step is a call of the method op. *)
Calling(op) == calls' = Append(calls, op)

(* The message the transport's receive primitive yielded in the latest call. *)
Yielded == last.reply[1].val

WsSend == StrV("websocket.send")
WsReceive == StrV("websocket.receive")
WsAccept == StrV("websocket.accept")

----------------------------------------------------------------------------
(* C1: send of a text value hands the transport exactly the message        *)
(* {type: "websocket.send", text: the same text}, without a bytes key; a   *)
(* value that is neither text nor bytes is not rejected: its string form   *)
(* is sent as text and the call ends as the transport's send ends; no      *)
(* websocket.send message holds both text and bytes.                       *)
C1_SendText ==
    After("send") =>
      /\ Len(last.sent) = 1
      /\ ~({"text", "bytes"} \subseteq DOMAIN last.sent[1])
      /\ last.arg.t = "str" =>
           last.sent[1] = [type |-> WsSend, text |-> last.arg]
      /\ last.arg.t \notin {"str", "bytes"} =>
           /\ DOMAIN last.sent[1] = {"type", "text"}
           /\ last.sent[1]["type"] = WsSend
           /\ last.sent[1]["text"].t = "str"
           /\ last.arg = IntV(42) => last.sent[1]["text"].v = "42"
           /\ last.arg = IntV(-7) => last.sent[1]["text"].v = "-7"
           /\ last.arg = None => last.sent[1]["text"].v = "None"
           /\ last.out = last.reply[1]

C1_Witness ==
    /\ After("send")
    /\ last.arg = IntV(42)
    /\ last.sent = <<[type |-> WsSend, text |-> StrV("42")]>>
    /\ last.out = Returned(None)

(* C2: send of a bytes value hands the transport exactly the message       *)
(* {type: "websocket.send", bytes: the same bytes}, without a text key.    *)
C2_SendBytes ==
    (After("send") /\ last.arg.t = "bytes") =>
      last.sent = <<[type |-> WsSend, bytes |-> last.arg]>>

C2_Witness ==
    /\ After("send")
    /\ last.arg = BytesV(<<1, 2>>)
    /\ last.sent = <<[type |-> WsSend, bytes |-> BytesV(<<1, 2>>)]>>

(* C3: when the transport yields a "websocket.receive" message, recv       *)
(* returns the value under "text" if that key is present, else the value   *)
(* under "bytes" if that key is present, the value as it is; a message     *)
(* with both yields the text value.                                        *)
C3_RecvPayload ==
    (After("recv") /\ last.reply[1].how = "return"
       /\ "type" \in DOMAIN Yielded /\ Yielded["type"] = WsReceive) =>
      /\ "text" \in DOMAIN Yielded => last.out = Returned(Yielded["text"])
      /\ ("text" \notin DOMAIN Yielded /\ "bytes" \in DOMAIN Yielded) =>
           last.out = Returned(Yielded["bytes"])

C3_Witness ==
    /\ After("recv")
    /\ last.reply = <<Returned([type |-> WsReceive, text |-> StrV("hello"),
                                bytes |-> BytesV(<<1, 2>>)])>>
    /\ last.out = Returned(StrV("hello"))

(* C4: a step of recv in which the transport yields a "websocket.receive"  *)
(* message with neither "text" nor "bytes" raises InvalidUsage to the      *)
(* caller, invokes the receive primitive once and no more, and leaves the  *)
(* configured subprotocols as they were.                                   *)
C4_RecvMalformed ==
    [][(Calling("recv") /\ last'.reply = <<Returned([type |-> WsReceive])>>) =>
         /\ last'.out = Raised("InvalidUsage")
         /\ transport' = Append(transport, [prim |-> "receive"])
         /\ last'.sent = <<>>
         /\ _subprotocols' = _subprotocols]_vars

C4_Witness ==
    /\ After("recv")
    /\ last.reply = <<Returned([type |-> WsReceive])>>
    /\ last.out.how = "raise"
    /\ last.out.val.v = "InvalidUsage"

(* C5: when the transport yields a message whose type is not               *)
(* "websocket.receive", recv returns None, whatever else the message       *)
(* holds.                                                                  *)
C5_RecvOtherType ==
    (After("recv") /\ last.reply[1].how = "return"
       /\ "type" \in DOMAIN Yielded /\ Yielded["type"] # WsReceive) =>
      last.out = Returned(None)

C5_Witness ==
    /\ After("recv")
    /\ last.reply = <<Returned([type |-> StrV("websocket.disconnect"),
                                text |-> StrV("hello"), bytes |-> BytesV(<<1, 2>>)])>>
    /\ last.out = Returned(None)

(* C6: accept hands the transport exactly one message                      *)
(* {type: "websocket.accept", subprotocol: p}; p is the entry of the       *)
(* override at the least index whose entry is among the configured         *)
(* subprotocols, and None when there is no override or no such entry.      *)
(* Only the set of configured subprotocols enters, not their order.        *)
C6_AcceptFirstMatch ==
    After("accept") =>
      LET override == IF last.arg = None THEN <<>> ELSE last.arg.v
          hits == {i \in 1..Len(override) : override[i] \in Range(_subprotocols.v)}
          p == IF hits = {} THEN None
               ELSE StrV(override[CHOOSE i \in hits : \A j \in hits : i <= j])
      IN last.sent = <<[type |-> WsAccept, subprotocol |-> p]>>

C6_Witness ==
    /\ After("accept")
    /\ last.arg = ListV(<<"chatv2", "chatv1">>)
    /\ _subprotocols = ListV(<<"chatv1", "chatv3">>)
    /\ last.sent = <<[type |-> WsAccept, subprotocol |-> StrV("chatv1")]>>

(* C7: a step of close invokes no transport primitive, returns None and    *)
(* leaves the configured subprotocols as they were; and once close has     *)
(* been called, a step of send, recv or accept still does what the method  *)
(* does: one invocation of its primitive with the method's message and     *)
(* the method's outcome.                                                   *)
C7_CloseNoOp ==
    [][/\ Calling("close") =>
            /\ transport' = transport
            /\ last'.sent = <<>> /\ last'.reply = <<>>
            /\ last'.out = Returned(None)
            /\ _subprotocols' = _subprotocols
       /\ "close" \in Range(calls) =>
            /\ Calling("send") =>
                 /\ transport' = Append(transport, [prim |-> "send"])
                 /\ last'.sent = <<SendMessage(last'.arg)>>
                 /\ last'.out = last'.reply[1]
            /\ Calling("recv") =>
                 /\ transport' = Append(transport, [prim |-> "receive"])
                 /\ last'.sent = <<>>
                 /\ last'.reply[1].how = "return" =>
                      last'.out = RecvResult(last'.reply[1].val)
            /\ Calling("accept") =>
                 /\ transport' = Append(transport, [prim |-> "send"])
                 /\ last'.sent =
                      <<AcceptMessage(AcceptSubprotocol(last'.arg, _subprotocols))>>
                 /\ last'.out = last'.reply[1]
            /\ (Calling("send") \/ Calling("recv") \/ Calling("accept")) =>
                 _subprotocols' = _subprotocols]_vars

C7_Witness ==
    /\ Len(calls) = 3
    /\ calls[1] = "accept" /\ calls[2] = "close" /\ calls[3] = "send"
    /\ last.arg = StrV("hello")
    /\ last.sent = <<[type |-> WsSend, text |-> StrV("hello")]>>
    /\ Len(transport) = 2

(* C8: the configured subprotocols are always a list, never None; after    *)
(* construction or a write of the property they are the list given, and    *)
(* the empty list when None (or nothing) was given.                        *)
C8_SubprotocolsNeverNull ==
    /\ get_subprotocols.t = "list"
    /\ get_subprotocols # None
    /\ last.op \in {"__init__", "subprotocols"} =>
         get_subprotocols = IF last.arg = None THEN ListV(<<>>) ELSE last.arg

C8_Witness ==
    /\ Len(calls) = 2
    /\ calls[1] = "subprotocols" /\ calls[2] = "subprotocols"
    /\ last.arg = None
    /\ get_subprotocols = ListV(<<>>)

(* C9: the transport primitives invoked so far are, in order, one send     *)
(* for each send or accept call and one receive for each recv call, and    *)
(* nothing for close or a write of subprotocols: nothing is held back and  *)
(* nothing is invoked twice.                                               *)
RECURSIVE PrimitivesOf(_)
PrimitivesOf(cs) ==
    IF cs = <<>> THEN <<>>
    ELSE LET rest == PrimitivesOf(Tail(cs))
         IN CASE Head(cs) \in {"send", "accept"} -> <<[prim |-> "send"]>> \o rest
              [] Head(cs) = "recv" -> <<[prim |-> "receive"]>> \o rest
              [] OTHER -> rest

C9_OneTransportCallPerCall ==
    /\ transport = PrimitivesOf(calls)
    /\ (After("send") \/ After("accept")) =>
         Len(last.sent) = 1 /\ Len(last.reply) = 1
    /\ After("recv") => last.sent = <<>> /\ Len(last.reply) = 1

C9_Witness ==
    /\ calls = <<"accept", "recv", "send">>
    /\ transport = <<[prim |-> "send"], [prim |-> "receive"], [prim |-> "send"]>>

(* C10: a step of send, recv or accept in which the transport primitive    *)
(* raises a fault raises that same fault to the caller and has invoked     *)
(* the primitive once.                                                     *)
C10_FaultPassesThrough ==
    [][\A f \in Faults :
         ((Calling("send") \/ Calling("recv") \/ Calling("accept"))
            /\ last'.reply = <<Raised(f)>>) =>
           /\ last'.out.how = "raise"
           /\ last'.out.val = [t |-> "exc", v |-> f]
           /\ Len(transport') = Len(transport) + 1]_vars

C10_Witness ==
    /\ After("recv")
    /\ last.reply = <<Raised("ConnectionResetError")>>
    /\ last.out = Raised("ConnectionResetError")

(* C11: no call is refused for the calls that came before it.  Whatever    *)
(* was called so far (nothing, accept once or several times, close), a     *)
(* step of accept hands the transport one "websocket.accept" message, a    *)
(* step of send hands it the message of its data, a step of recv invokes   *)
(* receive once, and each ends as the transport's reply makes it end; so   *)
(* the accepts and sends called so far number the send invocations.        *)
RECURSIVE Count(_, _)
Count(seq, x) ==
    IF seq = <<>> THEN 0
    ELSE (IF Head(seq) = x THEN 1 ELSE 0) + Count(Tail(seq), x)

C11_NoPhaseState ==
    /\ [](Count(calls, "accept") + Count(calls, "send")
            = Count(transport, [prim |-> "send"]))
    /\ [](Count(calls, "recv") = Count(transport, [prim |-> "receive"]))
    /\ [][/\ Calling("accept") =>
               /\ transport' = Append(transport, [prim |-> "send"])
               /\ Len(last'.sent) = 1
               /\ DOMAIN last'.sent[1] = {"type", "subprotocol"}
               /\ last'.sent[1]["type"] = WsAccept
               /\ last'.out = last'.reply[1]
          /\ Calling("send") =>
               /\ transport' = Append(transport, [prim |-> "send"])
               /\ Len(last'.sent) = 1
               /\ last'.sent[1]["type"] = WsSend
               /\ last'.arg.t = "str" => last'.sent[1] = [type |-> WsSend, text |-> last'.arg]
               /\ last'.arg.t = "bytes" => last'.sent[1] = [type |-> WsSend, bytes |-> last'.arg]
               /\ last'.out = last'.reply[1]
          /\ Calling("recv") =>
               /\ transport' = Append(transport, [prim |-> "receive"])
               /\ Len(last'.reply) = 1
               /\ last'.reply[1].how = "raise" => last'.out = last'.reply[1]
               /\ last'.reply[1] = Returned([type |-> WsReceive, text |-> StrV("hello")]) =>
                    last'.out = Returned(StrV("hello"))]_vars

C11_Witness ==
    /\ calls = <<"close", "accept", "accept">>
    /\ transport = <<[prim |-> "send"], [prim |-> "send"]>>
    /\ last.sent[1]["type"] = WsAccept
    /\ last.out = Returned(None)

(* C12: the configured subprotocols change only in a step that writes the  *)
(* subprotocols property, and then to the list written (the empty list     *)
(* for None); accept, send, recv and close leave them as they were.  So    *)
(* among the accepts made since the last write, equal overrides sent       *)
(* equal subprotocols.                                                     *)
C12_OnlySetterChangesList ==
    /\ [][_subprotocols' # _subprotocols =>
            /\ Calling("subprotocols")
            /\ _subprotocols' = IF last'.arg = None THEN ListV(<<>>) ELSE last'.arg]_vars
    /\ [][(Calling("accept") \/ Calling("send") \/ Calling("recv") \/ Calling("close")) =>
            _subprotocols' = _subprotocols]_vars
    /\ [](\A p \in negotiated : \A q \in negotiated : p[1] = q[1] => p[2] = q[2])

C12_Witness ==
    /\ calls = <<"accept", "recv", "accept">>
    /\ last.arg = ListV(<<"chatv2", "chatv1">>)
    /\ _subprotocols = ListV(<<"chatv1", "chatv3">>)
    /\ negotiated = {<<ListV(<<"chatv2", "chatv1">>), StrV("chatv1")>>}

(* C13: with several tasks in send at once, the messages handed to the     *)
(* transport are, as a multiset, one message per task that has reached     *)
(* self._send: the websocket.send message of that task's own data, none    *)
(* missing, none twice, none with another task's payload; and a task's     *)
(* call ends as the transport's reply to it.  Their order is not fixed     *)
(* (the witness has them in the reverse of the tasks' order).              *)
EnvelopeOf(data) ==
    IF data.t = "bytes" THEN [type |-> WsSend, bytes |-> data]
    ELSE [type |-> WsSend, text |-> data]

C13_OneEnvelopePerCall ==
    LET handed == {t \in Tasks : tasks[t].pc \in {"awaiting", "done"}}
    IN /\ Len(wire) = Cardinality(handed)
       /\ \A d \in ConcurrentData :
            Count(wire, EnvelopeOf(d)) = Cardinality({t \in handed : tasks[t].data = d})
       /\ \A i \in 1..Len(wire) : \E d \in ConcurrentData : wire[i] = EnvelopeOf(d)
       /\ Len(transport) = Len(wire)

C13_Witness ==
    /\ \A t \in Tasks : tasks[t].pc = "done"
    /\ tasks[1].data = StrV("hello")
    /\ tasks[2].data = BytesV(<<1, 2>>)
    /\ wire[1] = [type |-> WsSend, bytes |-> BytesV(<<1, 2>>)]
    /\ wire[2] = [type |-> WsSend, text |-> StrV("hello")]

====
